---- MODULE Spec2Model ----
(***************************************************************************)
(* Model of Classifier.py: process_file (multi-encoding scan, batched      *)
(* classification with interim checkpoints and pacing, polled by the       *)
(* check_running callback) and the result handling of its callers.         *)
(***************************************************************************)
EXTENDS Integers, Sequences, FiniteSets, TLC

\* ------------------------------------------------------------------ bounds
MaxLines == 3      \* number of lines after the header in an input file
MaxBatch == 2      \* largest batch_size tried (from -1, 0 up to this)
NumCat   == 1      \* how many of the five categories the classifier answers

\* ------------------------------------------------------- program constants
wait_time == 60    \* seconds between batches, polled one second at a time

encodings == <<"utf-8", "latin-1", "cp1252", "iso-8859-1">>

categories == <<"Support", "Against", "Implementation", "Reversal", "Other/Factual">>

\* ------------------------------------------------------------ text helpers
\* A line is a sequence of bytes.  HI is the byte 0xE9: not a valid UTF-8
\* sequence on its own, the letter e-acute in latin-1, cp1252 and iso-8859-1.
HI == "0xE9"

\* codec: does decoding this line under the encoding raise UnicodeDecodeError?
Undecodable(encoding, line) ==
    /\ encoding = "utf-8"
    /\ \E k \in 1..Len(line) : line[k] = HI

\* codec: the text a decodable line decodes to
Decode(encoding, line) ==
    [k \in 1..Len(line) |-> IF line[k] = HI THEN "e'" ELSE line[k]]

IsSpace(c) == c = " "

RECURSIVE lstrip(_)
lstrip(s) == IF s # <<>> /\ IsSpace(Head(s)) THEN lstrip(Tail(s)) ELSE s

RECURSIVE rstrip(_)
rstrip(s) ==
    IF s # <<>> /\ IsSpace(s[Len(s)]) THEN rstrip(SubSeq(s, 1, Len(s) - 1)) ELSE s

\* str.strip()
strip(s) == rstrip(lstrip(s))

\* index of the first "|" of s, 0 when there is none
FirstPipe(s) ==
    IF \E k \in 1..Len(s) : s[k] = "|"
    THEN CHOOSE k \in 1..Len(s) : s[k] = "|" /\ \A j \in 1..(k - 1) : s[j] # "|"
    ELSE 0

\* str.split('|', 1): one part without a pipe, else the text before the first
\* pipe and all the text after it
split(s) ==
    IF FirstPipe(s) = 0 THEN <<s>>
    ELSE <<SubSeq(s, 1, FirstPipe(s) - 1), SubSeq(s, FirstPipe(s) + 1, Len(s))>>

LowerChar(c) == IF c = "K" THEN "k" ELSE IF c = "Y" THEN "y" ELSE c

\* str.lower()
lower(s) == [k \in 1..Len(s) |-> LowerChar(s[k])]

\* needle in hay (substring test)
Contains(needle, hay) ==
    \E k \in 0..(Len(hay) - Len(needle)) :
        SubSeq(hay, k + 1, k + Len(needle)) = needle

\* ------------------------------------------------------------------ inputs
\* The header line: it has a pipe and mentions the term, and is skipped.
Header == <<"0", "|", "k", "y">>

\* Lines an input file is made of.
Lines ==
    { <<"1", "|", "x", "|", "K", "y">>,   \* a mention after a second pipe
      <<"k", "y", "|", "x", " ">>,        \* the term in the id only, trailing blank
      <<"k", "y">>,                       \* the term, but no pipe
      <<"4", "|", "k", "y", HI>> }        \* a mention, not valid UTF-8

Files == UNION { [1..n -> Lines] : n \in 0..MaxLines }

SearchTerms == { <<"k", "Y">> }

BatchSizes == (-1)..MaxBatch

ClassifierAnswers == { categories[k] : k \in 1..NumCat }

\* ------------------------------------------------------------------- state
VARIABLES
    file,               \* input: the lines after the header
    search_term,        \* input
    batch_size,         \* input
    running,            \* what check_running() returns when polled
    pc,                 \* position in process_file / its caller
    encIdx,             \* index into encodings of the current attempt
    line_num,           \* number of the line read next (header = 1)
    matching_speeches,  \* texts of the matches collected
    speech_ids,         \* ids of the matches collected
    results,            \* rows classified so far
    batch_start, batch_end, i,
    waited,             \* seconds slept in the current inter-batch wait
    ret,                \* what process_file returned
    interim,            \* interim files written, in order of writing
    output,             \* final output files written by the caller
    reported,           \* what the caller told the user
    hist                \* history of the run (observation only)

vars == <<file, search_term, batch_size, running, pc, encIdx, line_num,
          matching_speeches, speech_ids, results, batch_start, batch_end, i,
          waited, ret, interim, output, reported, hist>>

inputs == <<file, search_term, batch_size>>
scan == <<encIdx, line_num, matching_speeches, speech_ids>>
loop == <<batch_start, batch_end, i, waited>>
caller == <<output, reported>>

\* an entry of the trace
Ev(e, n) == [e |-> e, n |-> n]

NoStop == [on |-> FALSE, rows |-> 0, saves |-> 0, batches |-> 0, delays |-> 0, steps |-> 0]

Hist0 ==
    [ observed   |-> FALSE,   \* some poll returned "stop"
      late       |-> FALSE,   \* a classification or delay after such a poll
      scanStop   |-> FALSE,   \* the scan was cut short by a poll
      handed     |-> FALSE,   \* the batch loop was entered
      preset     |-> FALSE,   \* "stop" ever since the scan handed over matches
      calls      |-> 0,       \* classification calls issued
      raised     |-> FALSE,   \* a classification call raised
      atRaise    |-> <<>>,    \* interim files written before the raise
      callsAtRaise |-> 0,     \* classification calls issued up to the raise
      batches    |-> <<>>,    \* <<batch_start, batch_end>> of each batch begun
      fresh      |-> FALSE,   \* the last poll said "go on" and nothing was done since
      unpolled   |-> FALSE,   \* a classification or delay without such a poll
      trace      |-> <<>>,    \* calls, delays, saves and waits while no stop is seen
      cuts       |-> {},      \* interim files of batches stopped before their first record
      since      |-> NoStop ] \* what was done since "stop" was set in the batch loop

\* --------------------------------------------------- keeping the history
\* check_running() is called
Polled(h) ==
    [h EXCEPT !.observed = @ \/ ~running,
              !.fresh = running,
              !.trace = IF running THEN @ ELSE <<>>]

\* one more statement of the batch loop is executed
Stepped(h) == [h EXCEPT !.since.steps = IF h.since.on THEN @ + 1 ELSE @]

\* classify_treaty is called
Called(h) ==
    [h EXCEPT !.calls = @ + 1,
              !.late = @ \/ h.observed,
              !.unpolled = @ \/ ~h.fresh,
              !.fresh = FALSE,
              !.trace = IF h.observed THEN <<>> ELSE Append(@, Ev("call", 1))]

\* a row is appended to results
Appended(h) == [h EXCEPT !.since.rows = IF h.since.on THEN @ + 1 ELSE @]

\* time.sleep(2) between two records
SleptDelay(h) ==
    [h EXCEPT !.late = @ \/ h.observed,
              !.unpolled = @ \/ ~h.fresh,
              !.fresh = FALSE,
              !.since.delays = IF h.since.on THEN @ + 1 ELSE @,
              !.trace = IF h.observed THEN <<>> ELSE Append(@, Ev("delay", 2))]

\* time.sleep(1) of the wait between two batches, `done` seconds slept before
SleptWait(h, done) ==
    [h EXCEPT !.late = @ \/ h.observed,
              !.unpolled = @ \/ ~h.fresh,
              !.fresh = FALSE,
              !.since.delays = IF h.since.on THEN @ + 1 ELSE @,
              !.trace = IF h.observed THEN <<>>
                        ELSE IF done = 0 THEN Append(@, Ev("wait", 1))
                        ELSE [@ EXCEPT ![Len(@)] = Ev("wait", done + 1)]]

\* an interim file is written
Saved(h) ==
    [h EXCEPT !.fresh = FALSE,
              !.since.saves = IF h.since.on THEN @ + 1 ELSE @,
              !.trace = IF h.observed THEN <<>> ELSE Append(@, Ev("save", 1))]

\* a batch is begun
Begun(h, start, end) ==
    [h EXCEPT !.batches = Append(@, <<start, end>>),
              !.since.batches = IF h.since.on THEN @ + 1 ELSE @]

Init ==
    /\ file \in Files
    /\ search_term \in SearchTerms
    /\ batch_size \in BatchSizes
    /\ running = TRUE
    /\ pc = "open"
    /\ encIdx = 1
    /\ line_num = 1
    /\ matching_speeches = <<>>
    /\ speech_ids = <<>>
    /\ results = <<>>
    /\ batch_start = 0
    /\ batch_end = 0
    /\ i = 0
    /\ waited = 0
    /\ ret = "pending"
    /\ interim = <<>>
    /\ output = <<>>
    /\ reported = "nothing"
    /\ hist = Hist0

\* ------------------------------------------------------- check_running
\* The callback is the caller's: its answer may change between two polls,
\* as long as process_file has not returned.
Stop ==
    /\ pc \notin {"returned", "exit"}
    /\ running
    /\ running' = FALSE
    /\ hist' = IF pc \in {"batch", "record", "classify", "delay", "save", "more", "wait"}
               THEN [hist EXCEPT !.since = [NoStop EXCEPT !.on = TRUE]]
               ELSE hist
    /\ UNCHANGED <<inputs, pc, scan, results, loop, ret, interim, caller>>

Resume ==
    /\ pc \notin {"returned", "exit"}
    /\ ~running
    /\ running' = TRUE
    /\ hist' = [hist EXCEPT !.preset = FALSE, !.since = NoStop]
    /\ UNCHANGED <<inputs, pc, scan, results, loop, ret, interim, caller>>

\* --------------------------------------------------------------- the scan
\* The whole file, header first.
AllLines == <<Header>> \o file

\* An attempt may raise UnicodeDecodeError when it reads line n: the reader
\* decodes a block at a time, so the error comes with the block holding the
\* first undecodable line, at that line or at an earlier line of the block.
MayFailAt(encoding, n) ==
    \E k \in n..Len(AllLines) : Undecodable(encoding, AllLines[k])

MustFailAt(encoding, n) == Undecodable(encoding, AllLines[n])

\* except UnicodeDecodeError: continue  (next encoding, lists kept as they are)
NextEncoding ==
    /\ encIdx' = encIdx + 1
    /\ line_num' = 1
    /\ pc' = IF encIdx + 1 > Len(encodings) THEN "collected" ELSE "open"
    /\ UNCHANGED <<matching_speeches, speech_ids, hist>>

\* open(file_path, encoding=encoding); header = f.readline()
OpenAttempt ==
    /\ pc = "open"
    /\ \/ /\ MayFailAt(encodings[encIdx], 1)
          /\ NextEncoding
       \/ /\ ~MustFailAt(encodings[encIdx], 1)
          /\ pc' = "scan"
          /\ line_num' = 2
          /\ UNCHANGED <<encIdx, matching_speeches, speech_ids, hist>>
    /\ UNCHANGED <<inputs, running, results, loop, ret, interim, caller>>

\* The body of the for loop over the lines, for one decoded line.
IsMatch(term, text) == Contains(lower(term), lower(text))

ScanLine ==
    /\ pc = "scan"
    /\ line_num <= Len(AllLines)
    /\ \/ /\ MayFailAt(encodings[encIdx], line_num)
          /\ NextEncoding
          /\ UNCHANGED ret
       \/ /\ ~MustFailAt(encodings[encIdx], line_num)
          /\ IF ~running
             THEN /\ hist' = [Polled(hist) EXCEPT !.scanStop = TRUE]
                  /\ IF matching_speeches # <<>>
                     THEN pc' = "collected" /\ ret' = ret
                     ELSE pc' = "returned" /\ ret' = "None"
                  /\ UNCHANGED scan
             ELSE LET parts == split(strip(Decode(encodings[encIdx], AllLines[line_num])))
                  IN  /\ IF Len(parts) >= 2 /\ IsMatch(search_term, parts[2])
                         THEN /\ matching_speeches' = Append(matching_speeches, parts[2])
                              /\ speech_ids' = Append(speech_ids, parts[1])
                         ELSE UNCHANGED <<matching_speeches, speech_ids>>
                      /\ line_num' = line_num + 1
                      /\ hist' = Polled(hist)
                      /\ UNCHANGED <<pc, encIdx, ret>>
    /\ UNCHANGED <<inputs, running, results, loop, interim, caller>>

\* End of the file: "Successfully read file", break out of the encodings.
ScanDone ==
    /\ pc = "scan"
    /\ line_num > Len(AllLines)
    /\ pc' = "collected"
    /\ UNCHANGED <<inputs, running, scan, results, loop, ret, interim, caller, hist>>

\* --------------------------------------------------------- the batch loop
total_speeches == Len(matching_speeches)

Min(a, b) == IF a <= b THEN a ELSE b

\* Is batch_start still inside range(0, total_speeches, batch_size)?
InRange(start) ==
    IF batch_size > 0 THEN start < total_speeches ELSE start > total_speeches

\* (variant: the end of the batch is not clipped to the number of matches)
BatchEndNoMin(start) == start + batch_size

\* batch_end = min(batch_start + batch_size, total_speeches)
BatchEnd(start) == Min(start + batch_size, total_speeches)

\* the next value of range(0, total_speeches, batch_size)
NextStart(start) == start + batch_size

\* the row appended for match number n (counted from 0) and a category
Row(n, category) ==
    [Speech_ID |-> speech_ids[n + 1],
     Mention   |-> matching_speeches[n + 1],
     Category  |-> category]

\* (variant: the interim file holds the rows of the current batch only)
InterimFileDelta(end, rows) ==
    [count |-> end, rows |-> SubSeq(rows, Min(batch_start, Len(rows)) + 1, Len(rows))]

\* interim_results_{search_term}_{batch_end}.csv holding pd.DataFrame(results)
InterimFile(end, rows) == [count |-> end, rows |-> rows]

\* if not matching_speeches: return None; results = []; the for over range()
\* raises ValueError for a step of 0, caught by the outer except.
EnterLoop ==
    /\ pc = "collected"
    /\ IF matching_speeches = <<>> \/ batch_size = 0
       THEN /\ pc' = "returned"
            /\ ret' = "None"
            /\ hist' = [hist EXCEPT !.preset = ~running /\ matching_speeches # <<>>]
       ELSE /\ pc' = "batch"
            /\ ret' = ret
            /\ hist' = [hist EXCEPT !.handed = TRUE, !.preset = ~running]
    /\ results' = <<>>
    /\ batch_start' = 0
    /\ UNCHANGED <<inputs, running, scan, batch_end, i, waited, interim, caller>>

\* return pd.DataFrame(results)
ReturnTable ==
    /\ pc' = "returned"
    /\ ret' = "DataFrame"
    /\ UNCHANGED <<batch_end, i>>

\* (variant: a batch is begun without asking check_running)
BatchPollNoCheck ==
    /\ pc = "batch"
    /\ IF ~InRange(batch_start)
       THEN ReturnTable /\ hist' = Stepped(hist)
       ELSE /\ batch_end' = BatchEnd(batch_start)
            /\ i' = batch_start
            /\ pc' = "record"
            /\ ret' = ret
            /\ hist' = Stepped(Begun(hist, batch_start, BatchEnd(batch_start)))
    /\ UNCHANGED <<inputs, running, scan, results, batch_start, waited, interim, caller>>

\* for batch_start in range(...): if not check_running(): break; batch_end = ...
BatchPoll ==
    /\ pc = "batch"
    /\ IF ~InRange(batch_start)
       THEN ReturnTable /\ hist' = Stepped(hist)
       ELSE IF ~running
            THEN ReturnTable /\ hist' = Stepped(Polled(hist))
            ELSE /\ batch_end' = BatchEnd(batch_start)
                 /\ i' = batch_start
                 /\ pc' = "record"
                 /\ ret' = ret
                 /\ hist' = Stepped(Begun(Polled(hist), batch_start,
                                          BatchEnd(batch_start)))
    /\ UNCHANGED <<inputs, running, scan, results, batch_start, waited, interim, caller>>

\* (variant: a stop seen before a record leaves both loops at once)
RecordPollReturn ==
    /\ pc = "record"
    /\ IF i >= batch_end
       THEN pc' = "save" /\ hist' = Stepped(hist) /\ ret' = ret
       ELSE IF ~running
            THEN /\ pc' = "returned"
                 /\ ret' = "DataFrame"
                 /\ hist' = Stepped(Polled(hist))
            ELSE pc' = "classify" /\ hist' = Stepped(Polled(hist)) /\ ret' = ret
    /\ UNCHANGED <<inputs, running, scan, results, loop, interim, caller>>

\* for i in range(batch_start, batch_end): if not check_running(): break
RecordPoll ==
    /\ pc = "record"
    /\ IF i >= batch_end
       THEN pc' = "save" /\ hist' = Stepped(hist)
       ELSE IF ~running
            THEN /\ pc' = "save"
                 /\ hist' = [Stepped(Polled(hist)) EXCEPT
                       !.cuts = IF i = batch_start THEN @ \cup {Len(interim) + 1} ELSE @]
            ELSE pc' = "classify" /\ hist' = Stepped(Polled(hist))
    /\ UNCHANGED <<inputs, running, scan, results, loop, ret, interim, caller>>

\* category = classify_treaty(speech_text); results.append({...})
Classify ==
    /\ pc = "classify"
    /\ \E category \in ClassifierAnswers :
           results' = Append(results, Row(i, category))
    /\ pc' = "delay"
    /\ hist' = Stepped(Appended(Called(hist)))
    /\ UNCHANGED <<inputs, running, scan, loop, ret, interim, caller>>

\* (variant: the error is caught per record, as in the scan, and the loop goes on)
ClassifyRaisesSkip ==
    /\ pc = "classify"
    /\ pc' = "delay"
    /\ hist' = [Stepped(Called(hist)) EXCEPT
                   !.raised = TRUE, !.atRaise = interim,
                   !.callsAtRaise = hist.calls + 1]
    /\ UNCHANGED <<inputs, running, scan, results, loop, ret, interim, caller>>

\* classify_treaty raises: except Exception: ...; return None
ClassifyRaises ==
    /\ pc = "classify"
    /\ pc' = "returned"
    /\ ret' = "None"
    /\ hist' = [Stepped(Called(hist)) EXCEPT
                   !.raised = TRUE, !.atRaise = interim,
                   !.callsAtRaise = hist.calls + 1]
    /\ UNCHANGED <<inputs, running, scan, results, loop, interim, caller>>

\* (variant: the delay also follows the last record of a batch)
DelayAlways ==
    /\ pc = "delay"
    /\ hist' = IF running
               THEN Stepped(SleptDelay(Polled(hist)))
               ELSE Stepped(Polled(hist))
    /\ i' = i + 1
    /\ pc' = "record"
    /\ UNCHANGED <<inputs, running, scan, results, batch_start, batch_end, waited,
                   ret, interim, caller>>

\* (variant: the delay between two records does not ask check_running)
DelayNoPoll ==
    /\ pc = "delay"
    /\ hist' = IF i < batch_end - 1
               THEN Stepped(SleptDelay(hist))
               ELSE Stepped(hist)
    /\ i' = i + 1
    /\ pc' = "record"
    /\ UNCHANGED <<inputs, running, scan, results, batch_start, batch_end, waited,
                   ret, interim, caller>>

\* if i < batch_end - 1 and check_running(): time.sleep(2)
Delay ==
    /\ pc = "delay"
    /\ hist' = IF i < batch_end - 1
               THEN IF running
                    THEN Stepped(SleptDelay(Polled(hist)))
                    ELSE Stepped(Polled(hist))
               ELSE Stepped(hist)
    /\ i' = i + 1
    /\ pc' = "record"
    /\ UNCHANGED <<inputs, running, scan, results, batch_start, batch_end, waited,
                   ret, interim, caller>>

\* (variant: the interim file is written before the batch, not after it)
SaveInterimEarly ==
    /\ pc = "save"
    /\ interim' = Append(interim,
                     InterimFile(batch_end, SubSeq(results, 1, Min(batch_start, Len(results)))))
    /\ pc' = "more"
    /\ hist' = Stepped(Saved(hist))
    /\ UNCHANGED <<inputs, running, scan, results, loop, ret, caller>>

\* interim_df.to_csv(interim_file, index=False)
SaveInterim ==
    /\ pc = "save"
    /\ interim' = Append(interim, InterimFile(batch_end, results))
    /\ pc' = "more"
    /\ hist' = Stepped(Saved(hist))
    /\ UNCHANGED <<inputs, running, scan, results, loop, ret, caller>>

\* if batch_end < total_speeches and check_running(): wait, else next batch
MoreBatches ==
    /\ pc = "more"
    /\ IF batch_end < total_speeches
       THEN IF running
            THEN /\ pc' = "wait"
                 /\ batch_start' = batch_start
                 /\ hist' = Stepped(Polled(hist))
            ELSE /\ pc' = "batch"
                 /\ batch_start' = NextStart(batch_start)
                 /\ hist' = Stepped(Polled(hist))
       ELSE /\ pc' = "batch"
            /\ batch_start' = NextStart(batch_start)
            /\ hist' = Stepped(hist)
    /\ waited' = 0
    /\ UNCHANGED <<inputs, running, scan, results, batch_end, i, ret, interim, caller>>

\* (variant: the wait sleeps its seconds without asking check_running)
WaitStepBlind ==
    /\ pc = "wait"
    /\ waited < wait_time
    /\ pc' = pc
    /\ batch_start' = batch_start
    /\ waited' = waited + 1
    /\ hist' = Stepped(SleptWait(hist, waited))
    /\ UNCHANGED <<inputs, running, scan, results, batch_end, i, ret, interim, caller>>

\* (variant: the wait is a loop that only a stop ends)
WaitStepUnbounded ==
    /\ pc = "wait"
    /\ IF ~running
       THEN /\ pc' = "batch"
            /\ batch_start' = NextStart(batch_start)
            /\ waited' = 0
            /\ hist' = Stepped(Polled(hist))
       ELSE /\ pc' = pc
            /\ batch_start' = batch_start
            /\ waited' = waited + 1
            /\ hist' = Stepped(SleptWait(Polled(hist), waited))
    /\ UNCHANGED <<inputs, running, scan, results, batch_end, i, ret, interim, caller>>

\* for _ in range(wait_time): if not check_running(): break; time.sleep(1)
WaitStep ==
    /\ pc = "wait"
    /\ waited < wait_time
    /\ IF ~running
       THEN /\ pc' = "batch"
            /\ batch_start' = NextStart(batch_start)
            /\ waited' = 0
            /\ hist' = Stepped(Polled(hist))
       ELSE /\ pc' = pc
            /\ batch_start' = batch_start
            /\ waited' = waited + 1
            /\ hist' = Stepped(SleptWait(Polled(hist), waited))
    /\ UNCHANGED <<inputs, running, scan, results, batch_end, i, ret, interim, caller>>

\* the wait is over: on to the next batch
WaitDone ==
    /\ pc = "wait"
    /\ waited = wait_time
    /\ pc' = "batch"
    /\ batch_start' = NextStart(batch_start)
    /\ waited' = 0
    /\ hist' = Stepped(hist)
    /\ UNCHANGED <<inputs, running, scan, results, batch_end, i, ret, interim, caller>>

\* ------------------------------------------------------------- the callers
\* (variant: the table is saved without the test for an empty table)
ReportAnyTable ==
    /\ pc = "returned"
    /\ IF ret = "DataFrame"
       THEN output' = Append(output, results) /\ reported' = "saved"
       ELSE output' = output /\ reported' = "no results"
    /\ pc' = "exit"
    /\ UNCHANGED <<inputs, running, scan, results, loop, ret, interim, hist>>

\* run_analysis / command_line_main:
\* if results_df is not None and not results_df.empty: results_df.to_csv(...)
Report ==
    /\ pc = "returned"
    /\ IF ret = "DataFrame" /\ results # <<>>
       THEN output' = Append(output, results) /\ reported' = "saved"
       ELSE output' = output /\ reported' = "no results"
    /\ pc' = "exit"
    /\ UNCHANGED <<inputs, running, scan, results, loop, ret, interim, hist>>

Next ==
    \/ Stop \/ Resume
    \/ OpenAttempt \/ ScanLine \/ ScanDone
    \/ EnterLoop \/ BatchPoll \/ RecordPoll \/ Classify \/ ClassifyRaises \/ Delay
    \/ SaveInterim \/ MoreBatches \/ WaitStep \/ WaitDone
    \/ Report

Spec == Init /\ [][Next]_vars

\* The statements of process_file and of its caller: a single thread that
\* keeps running whatever check_running answers.
Program ==
    \/ OpenAttempt \/ ScanLine \/ ScanDone
    \/ EnterLoop \/ BatchPoll \/ RecordPoll \/ Classify \/ ClassifyRaises \/ Delay
    \/ SaveInterim \/ MoreBatches \/ WaitStep \/ WaitDone
    \/ Report

FairSpec == Spec /\ WF_vars(Program)

\* ================================================================ properties
IsPrefix(s, t) == Len(s) <= Len(t) /\ SubSeq(t, 1, Len(s)) = s

\* the (id, text) pairs of the matches handed to the batch loop
Matches == [k \in 1..Len(matching_speeches) |-> <<speech_ids[k], matching_speeches[k]>>]

\* the (id, text) pairs of the rows of a table
IdText(rows) == [k \in 1..Len(rows) |-> <<rows[k].Speech_ID, rows[k].Mention>>]

\* Has the line a pipe, and does the text after its first pipe mention the term?
Qualifies(text) ==
    /\ \E k \in 1..Len(text) : text[k] = "|"
    /\ LET first == CHOOSE k \in 1..Len(text) :
                        text[k] = "|" /\ \A j \in 1..(k - 1) : text[j] # "|"
       IN  Contains(lower(search_term), lower(SubSeq(text, first + 1, Len(text))))

RECURSIVE QualifyingFrom(_, _)
\* the qualifying lines from line n on, in file order, as (id, text) pairs
QualifyingFrom(encoding, n) ==
    IF n > Len(AllLines) THEN <<>>
    ELSE LET text == strip(Decode(encoding, AllLines[n]))
         IN  (IF Qualifies(text) THEN <<split(text)>> ELSE <<>>)
                 \o QualifyingFrom(encoding, n + 1)

Ended == pc \in {"returned", "exit"}

\* C1: the matches handed to the batch loop by a scan that no poll cut short
\* are exactly the non-header lines whose text after the first pipe mentions
\* the search term, each once and in file order, whatever the line at which
\* an earlier encoding attempt failed.
C1_MatchesExactlyOnce ==
    (hist.handed /\ ~hist.scanStop) =>
        Matches = QualifyingFrom(encodings[encIdx], 2)

\* C2: the (id, text) sequence of the result table is always a prefix of the
\* match sequence, and a run that ends with no stop observed and no failed
\* classification has classified every match.
C2_ResultsPrefixOfMatches ==
    /\ IsPrefix(IdText(results), Matches)
    /\ (Ended /\ hist.handed /\ ~hist.observed /\ ~hist.raised) =>
           Len(results) = total_speeches

\* C3: once a poll of check_running has returned "stop", no classification
\* call and no delay (2 seconds or one second of the wait) is issued.
C3_NoWorkAfterStopObserved == ~hist.late

\* C4: every interim file is named with the number of rows it holds.
C4_InterimNamedByRowCount ==
    \A k \in 1..Len(interim) : interim[k].count = Len(interim[k].rows)

\* C5: an interim file holds the whole result table as it is when the file is
\* written, that is as many rows as classifications made so far; every
\* interim file is a prefix of the table at any later time (so of the table
\* returned) and of every interim file written after it.
C5_InterimPrefixConsistent ==
    /\ pc = "more" =>
           /\ interim[Len(interim)].rows = results
           /\ ~hist.raised => Len(interim[Len(interim)].rows) = hist.calls
    /\ \A k \in 1..Len(interim) : IsPrefix(interim[k].rows, results)
    /\ \A j, k \in 1..Len(interim) :
           j < k => IsPrefix(interim[j].rows, interim[k].rows)

C5_Witness ==
    /\ pc = "exit" /\ ret = "DataFrame"
    /\ Len(interim) >= 2
    /\ interim[1].rows # <<>>
    /\ Len(interim[1].rows) < Len(interim[2].rows)
    /\ interim[Len(interim)].rows = results

\* C6: when a classification call raises, the run is over: no later
\* classification call, no interim file for the failing batch or a later one
\* (the rows of the failing batch are in no interim file), the interim files
\* written before are as they were, and process_file returns no table.
C6_RaiseAbortsRun ==
    hist.raised =>
        /\ Ended
        /\ ret = "None"
        /\ hist.calls = hist.callsAtRaise
        /\ interim = hist.atRaise
        /\ \A k \in 1..Len(interim) :
               /\ interim[k].count <= batch_start
               /\ Len(interim[k].rows) <= Len(results) - (i - batch_start)
        /\ output = <<>>

C6_Witness ==
    /\ hist.raised /\ pc = "exit"
    /\ interim # <<>>
    /\ i > batch_start
    /\ Len(results) > Len(interim[Len(interim)].rows)

CeilDiv(n, b) == (n + b - 1) \div b

\* C7: with batch_size B >= 1 and N matches, while no stop is observed and no
\* classification fails, batch k covers the matches (k-1)*B .. min(k*B, N)-1
\* and one interim file is written per batch; a run that so ends has
\* processed ceil(N/B) batches.
C7_BatchesPartitionMatches ==
    (batch_size >= 1 /\ hist.handed /\ ~hist.observed /\ ~hist.raised) =>
        /\ \A k \in 1..Len(hist.batches) :
               hist.batches[k] =
                   <<(k - 1) * batch_size, Min(k * batch_size, total_speeches)>>
        /\ Len(hist.batches) <= CeilDiv(total_speeches, batch_size)
        /\ Len(interim) = IF pc \in {"record", "classify", "delay", "save"}
                          THEN Len(hist.batches) - 1 ELSE Len(hist.batches)
        /\ Ended =>
               /\ ret = "DataFrame"
               /\ Len(hist.batches) = CeilDiv(total_speeches, batch_size)

C7_Witness ==
    /\ pc = "exit" /\ ~hist.observed /\ ~hist.raised
    /\ batch_size = 2
    /\ total_speeches = 3
    /\ hist.batches = <<(<<0, 2>>), (<<2, 3>>)>>
    /\ Len(interim) = 2

\* C8: if check_running says "stop" when the scan hands its matches over and
\* ever after, no classification call is issued, no interim file is written,
\* the table stays empty, and the caller reports no results and writes no
\* output file.
C8_StopBeforeFirstBatch ==
    hist.preset =>
        /\ hist.calls = 0
        /\ interim = <<>>
        /\ results = <<>>
        /\ (Ended /\ batch_size # 0) => ret = "DataFrame"
        /\ pc = "exit" => (output = <<>> /\ reported = "no results")

C8_Witness ==
    /\ hist.preset /\ hist.observed /\ ~hist.scanStop
    /\ pc = "exit"
    /\ batch_size >= 1
    /\ total_speeches >= 1
    /\ ret = "DataFrame"

\* C10: a non-empty table returned by process_file is exactly what the
\* interim file written last holds.
C10_LastInterimIsReturnedTable ==
    (Ended /\ ret = "DataFrame" /\ results # <<>>) =>
        /\ interim # <<>>
        /\ interim[Len(interim)].rows = results

C10_Witness ==
    /\ pc = "exit" /\ ret = "DataFrame"
    /\ hist.observed
    /\ results # <<>>
    /\ Len(results) < total_speeches
    /\ interim[Len(interim)].count > Len(results)

RECURSIVE QualifyingBetween(_, _, _)
\* the qualifying lines among lines n..last, in file order, as (id, text) pairs
QualifyingBetween(encoding, n, last) ==
    IF n > last THEN <<>>
    ELSE LET text == strip(Decode(encoding, AllLines[n]))
         IN  (IF Qualifies(text) THEN <<split(text)>> ELSE <<>>)
                 \o QualifyingBetween(encoding, n + 1, last)

\* C11: when a poll of the scan returns "stop": with no match collected yet
\* process_file returns at once without results, classification call or
\* interim file; otherwise reading stops there and the batch loop gets
\* exactly the matches of the lines read before that poll, in file order.
C11_StopDuringScan ==
    hist.scanStop =>
        IF Matches = <<>>
        THEN Ended /\ ret = "None" /\ hist.calls = 0 /\ interim = <<>>
        ELSE Matches = QualifyingBetween(encodings[encIdx], 2, line_num - 1)

RECURSIVE CallsOf(_)
CallsOf(n) ==
    IF n <= 0 THEN <<>>
    ELSE IF n = 1 THEN <<Ev("call", 1)>>
    ELSE <<Ev("call", 1), Ev("delay", 2)>> \o CallsOf(n - 1)

\* what a run over the matches from number `start` on does, batch by batch
RECURSIVE Schedule(_)
Schedule(start) ==
    IF start >= total_speeches THEN <<>>
    ELSE LET end == Min(start + batch_size, total_speeches)
         IN  CallsOf(end - start) \o <<Ev("save", 1)>>
                 \o (IF end < total_speeches THEN <<Ev("wait", wait_time)>> ELSE <<>>)
                 \o Schedule(end)

\* C13: in a run with B >= 1 in which no poll returns "stop", a 2-second
\* delay comes exactly between two consecutive calls of one batch, the
\* interim file of a batch is written after its last call, and a wait of
\* exactly 60 one-second steps comes exactly between the interim file of a
\* batch and the next batch, never after the last batch.
C13_PacingSchedule ==
    (batch_size >= 1 /\ hist.handed /\ ~hist.observed) =>
        LET t == hist.trace
            e == Schedule(0)
        IN  /\ Len(t) <= Len(e)
            /\ \A k \in 1..Len(t) :
                   \/ t[k] = e[k]
                   \/ /\ k = Len(t) /\ pc = "wait"
                      /\ t[k].e = "wait" /\ e[k].e = "wait"
                      /\ t[k].n = waited /\ waited < wait_time
            /\ (Ended /\ ~hist.raised) => t = e

C13_Witness ==
    /\ pc = "exit" /\ ~hist.observed /\ ~hist.raised
    /\ batch_size = 2
    /\ hist.trace = <<Ev("call", 1), Ev("delay", 2), Ev("call", 1), Ev("save", 1),
                      Ev("wait", wait_time), Ev("call", 1), Ev("save", 1)>>

\* C14: once check_running says "stop" in the batch loop and keeps saying
\* so, at most one more row is appended, no delay is slept, no batch is
\* begun, at most one more interim file is written, and process_file has
\* returned after at most six more statements of the loop.
C14_StopIsPrompt ==
    hist.since.on =>
        /\ hist.since.rows <= 1
        /\ hist.since.delays = 0
        /\ hist.since.batches = 0
        /\ hist.since.saves <= 1
        /\ hist.since.steps <= 6
        /\ hist.since.steps = 6 => Ended

C14_Witness ==
    /\ hist.since.on
    /\ pc = "exit"
    /\ hist.since.rows = 1
    /\ hist.since.saves = 1
    /\ hist.since.steps = 6
    /\ Len(results) < total_speeches

\* C15: every classification call and every delay step follows a poll of
\* check_running that said "go on", with no call, delay or save in between.
C15_PolledBeforeWork == ~hist.unpolled

C15_Witness ==
    /\ pc = "exit"
    /\ ~hist.unpolled
    /\ hist.calls >= 3
    /\ Len(hist.batches) >= 2
    /\ \E k \in 1..Len(hist.trace) : hist.trace[k].e = "delay"
    /\ \E k \in 1..Len(hist.trace) : hist.trace[k] = Ev("wait", wait_time)

\* C16: for every file, every batch_size (0 and negative ones too), every
\* behaviour of check_running and of the classifier, process_file returns in
\* the end, and a wait between two batches never exceeds 60 one-second steps.
C16_Returns == [](waited <= wait_time) /\ <>Ended

C16_Witness ==
    /\ pc = "exit"
    /\ batch_size <= 0
    /\ total_speeches >= 1
    /\ ret \in {"None", "DataFrame"}

\* C17: every interim file holds at least one row, and more rows than the
\* interim file written before it.
C17_InterimAddsRows ==
    \A k \in 1..Len(interim) :
        /\ interim[k].rows # <<>>
        /\ k > 1 => Len(interim[k].rows) > Len(interim[k - 1].rows)

\* C17 as amended: an interim file never holds fewer rows than the one
\* before it; it holds at least one row, and more rows than the one before,
\* unless its batch was stopped by the poll before its first record, and
\* then it holds the same rows as the one before (none if it is the first).
C17_InterimAddsRowsUnlessCut ==
    \A k \in 1..Len(interim) :
        LET before == IF k > 1 THEN interim[k - 1].rows ELSE <<>>
        IN  IF k \in hist.cuts
            THEN interim[k].rows = before
            ELSE /\ IsPrefix(before, interim[k].rows)
                 /\ Len(interim[k].rows) > Len(before)

C17_Witness ==
    /\ Len(interim) = 2
    /\ hist.cuts = {2}
    /\ interim[1].rows # <<>>
    /\ interim[2].rows = interim[1].rows
====
